---- MODULE Spec2Model ----
(***************************************************************************)
(* Baby Name Generator API: the scoring and ranking engine of src/main.py  *)
(* (score_name, generate_suggestions), the request handlers api_generate   *)
(* and api_history, and the "generation" collection they write and read.   *)
(*                                                                         *)
(* Text is a sequence of one-character strings, so that lower(), `in`,     *)
(* startswith(), endswith() and slices are computed as Python computes     *)
(* them.  A float is an IEEE-754 double, held exactly: every operation is  *)
(* the exact result rounded to 53 significant bits, ties to even.          *)
(***************************************************************************)
EXTENDS Integers, Sequences, FiniteSets, TLC

VARIABLES
    catalog,     \* the module global BASIC_NAMES
    log,         \* the "generation" collection: the documents create_document stored
    sinkCalls,   \* how many times create_document has been called
    requests,    \* how many requests the handlers have served
    request,     \* the request being answered (the last handler's input)
    response,    \* the response of the last handler
    raised,      \* whether the last create_document / get_documents call raised
    answered,    \* every generate request answered so far: [request, raised, suggestions]
    pref,        \* generate_suggestions / score_name: the Preference argument
    limit,       \* generate_suggestions: the limit argument
    item,        \* score_name: the catalog record argument
    ranked,      \* generate_suggestions: its local list of (score, item), sorted
    result,      \* generate_suggestions: the list it returned
    score,       \* score_name: the float it returned
    pc           \* "idle" (server), "call" (a function is about to run), "done"

vars == <<catalog, log, sinkCalls, requests, request, response, raised, answered,
          pref, limit, item, ranked, result, score, pc>>

(***************************************************************************)
(* Python values                                                           *)
(***************************************************************************)

\* Optional[T]: None is the empty tuple, a value v is <<v>>.
None == <<>>

Some(v) == <<v>>

\* bool(x) of an Optional[str] whose value is a TLA+ string: None and "" are falsy.
TruthyStr(o) == o # None /\ o[1] # ""

\* bool(x) of an Optional[str] whose value is text (a sequence of characters).
TruthyText(o) == o # None /\ o[1] # <<>>

\* bool(x) of an Optional[int]: None and 0 are falsy.
TruthyInt(o) == o # None /\ o[1] # 0

\* str.lower() on one character: the ASCII capitals; every other character
\* the model uses is its own lower case.
LowerOf ==
    [A |-> "a", B |-> "b", C |-> "c", D |-> "d", E |-> "e", F |-> "f", G |-> "g",
     H |-> "h", I |-> "i", J |-> "j", K |-> "k", L |-> "l", M |-> "m", N |-> "n",
     O |-> "o", P |-> "p", Q |-> "q", R |-> "r", S |-> "s", T |-> "t", U |-> "u",
     V |-> "v", W |-> "w", X |-> "x", Y |-> "y", Z |-> "z"]

\* s.lower()
lower(s) == [i \in 1..Len(s) |-> IF s[i] \in DOMAIN LowerOf THEN LowerOf[s[i]] ELSE s[i]]

\* s.startswith(p)
startswith(s, p) == Len(p) <= Len(s) /\ \A i \in 1..Len(p) : s[i] = p[i]

\* s.endswith(p)
endswith(s, p) ==
    Len(p) <= Len(s) /\ \A i \in 1..Len(p) : s[Len(s) - Len(p) + i] = p[i]

\* needle in hay (substring test; the empty text is in every text)
contains(hay, needle) ==
    \E k \in 0..(Len(hay) - Len(needle)) : \A i \in 1..Len(needle) : hay[k + i] = needle[i]

\* s[:n]
first(s, n) == SubSeq(s, 1, IF n < Len(s) THEN n ELSE Len(s))

\* s[-n:]
last(s, n) == SubSeq(s, (IF n < Len(s) THEN Len(s) - n ELSE 0) + 1, Len(s))

\* sep.join(parts)
RECURSIVE join(_, _)
join(sep, parts) ==
    IF parts = <<>> THEN <<>>
    ELSE IF Len(parts) = 1 THEN parts[1]
    ELSE parts[1] \o sep \o join(sep, Tail(parts))

(***************************************************************************)
(* IEEE-754 doubles.  A double is [neg, hi, mid, lo]: the magnitude        *)
(*   (hi * 2^40 + mid * 2^20 + lo) * 2^-60                                 *)
(* with 0 <= mid, lo < 2^20, at most 53 significant bits, and neg the      *)
(* sign (zero is never negative).  Every value the program computes is a   *)
(* multiple of 2^-60 of magnitude below 16, so the representation is exact.*)
(***************************************************************************)

Limb == 2^20

RECURSIVE BitLen(_)
BitLen(n) == IF n = 0 THEN 0 ELSE 1 + BitLen(n \div 2)

Mag(hi, mid, lo) == [hi |-> hi, mid |-> mid, lo |-> lo]

MagZero == Mag(0, 0, 0)

MagAdd(x, y) ==
    LET l == x.lo + y.lo
        m == x.mid + y.mid + (l \div Limb)
    IN  Mag(x.hi + y.hi + (m \div Limb), m % Limb, l % Limb)

\* x - y for x >= y
MagSub(x, y) ==
    LET l == x.lo - y.lo
        bl == IF l < 0 THEN 1 ELSE 0
        m == x.mid - y.mid - bl
        bm == IF m < 0 THEN 1 ELSE 0
    IN  Mag(x.hi - y.hi - bm, m + bm * Limb, l + bl * Limb)

MagLess(x, y) ==
    \/ x.hi < y.hi
    \/ x.hi = y.hi /\ x.mid < y.mid
    \/ x.hi = y.hi /\ x.mid = y.mid /\ x.lo < y.lo

\* The magnitude m plus a fraction of its last place (sticky: something nonzero
\* lies below lo), rounded to 53 significant bits, ties to even.
MagRound(m, sticky) ==
    LET len == BitLen(m.hi)
    IN  IF len <= 13 THEN m
        ELSE LET q == 2^(len - 13)
                 rem == m.lo % q
                 kept == Mag(m.hi, m.mid, m.lo - rem)
                 odd == (m.lo \div q) % 2 = 1
                 up == \/ 2 * rem > q
                       \/ 2 * rem = q /\ (sticky \/ odd)
             IN  IF up THEN MagAdd(kept, Mag(0, 0, q)) ELSE kept

Dbl(neg, m) == [neg |-> neg /\ m # MagZero, hi |-> m.hi, mid |-> m.mid, lo |-> m.lo]

MagOf(x) == Mag(x.hi, x.mid, x.lo)

Zero == Dbl(FALSE, MagZero)

\* x + y
FAdd(x, y) ==
    LET same == x.neg = y.neg
        less == MagLess(MagOf(x), MagOf(y))
        exact == IF same THEN MagAdd(MagOf(x), MagOf(y))
                 ELSE IF less THEN MagSub(MagOf(y), MagOf(x))
                 ELSE MagSub(MagOf(x), MagOf(y))
    IN  Dbl(IF ~same /\ less THEN y.neg ELSE x.neg, MagRound(exact, FALSE))

\* -x
FNeg(x) == Dbl(~x.neg, MagOf(x))

\* x - y
FSub(x, y) == FAdd(x, FNeg(y))

\* abs(x)
FAbs(x) == Dbl(FALSE, MagOf(x))

\* x < y
FLess(x, y) ==
    IF x.neg # y.neg THEN x.neg
    ELSE IF x.neg THEN MagLess(MagOf(y), MagOf(x)) ELSE MagLess(MagOf(x), MagOf(y))

\* 0.5 * x: exact, x being an even multiple of 2^-60
FHalf(x) ==
    LET m == x.mid + (x.hi % 2) * Limb
        l == x.lo + (m % 2) * Limb
    IN  Dbl(x.neg, Mag(x.hi \div 2, m \div 2, l \div 2))

\* The double a decimal literal p/q denotes (0 <= p < 2^20, 0 < q < 2^10, and
\* p = 0 or 2^-7 <= p/q < 16): p * 2^80 / q by long division, rounded.
Dec(p, q) ==
    LET d4 == p \div q
        r4 == p % q
        d3 == (r4 * Limb) \div q
        r3 == (r4 * Limb) % q
        d2 == (r3 * Limb) \div q
        r2 == (r3 * Limb) % q
        d1 == (r2 * Limb) \div q
        r1 == (r2 * Limb) % q
        d0 == (r1 * Limb) \div q
        r0 == (r1 * Limb) % q
        m == Mag(d4 * Limb + d3, d2, d1)
        half == Limb \div 2
    IN  IF d0 = 0 /\ r0 = 0 THEN Dbl(FALSE, MagRound(m, FALSE))
        ELSE IF BitLen(m.hi) > 13 THEN Dbl(FALSE, MagRound(m, TRUE))
        ELSE IF d0 > half \/ (d0 = half /\ (r0 # 0 \/ m.lo % 2 = 1))
             THEN Dbl(FALSE, MagAdd(m, Mag(0, 0, 1)))
             ELSE Dbl(FALSE, m)

\* round(x, 3), as the number of thousandths it denotes: |x| * 1000 rounded to
\* the nearest integer, ties to even (Python rounds the exact binary value).
Round3(x) ==
    LET l == x.lo * 1000
        m == x.mid * 1000 + (l \div Limb)
        h == (x.hi % Limb) * 1000 + (m \div Limb)
        k == (x.hi \div Limb) * 1000 + (h \div Limb)
        fh == h % Limb
        fm == m % Limb
        fl == l % Limb
        half == Limb \div 2
        up == \/ fh > half
              \/ fh = half /\ (fm # 0 \/ fl # 0)
              \/ fh = half /\ fm = 0 /\ fl = 0 /\ k % 2 = 1
        n == IF up THEN k + 1 ELSE k
    IN  IF x.neg THEN -n ELSE n

(***************************************************************************)
(* The catalog (main.py, BASIC_NAMES).  name and origin are text, themes a *)
(* list of text; gender and meaning are only compared or copied whole.     *)
(***************************************************************************)

BASIC_NAMES == <<
    [name |-> <<"J", "a", "m", "e", "s">>, gender |-> "boy",
     origin |-> <<"E", "n", "g", "l", "i", "s", "h">>,
     meaning |-> "supplanter",
     themes |-> <<<<"c", "l", "a", "s", "s", "i", "c">>, <<"b", "i", "b", "l", "i", "c", "a", "l">>>>,
     popularity |-> Dec(2, 10)],
    [name |-> <<"E", "l", "i", "z", "a", "b", "e", "t", "h">>, gender |-> "girl",
     origin |-> <<"E", "n", "g", "l", "i", "s", "h">>,
     meaning |-> "oath of God",
     themes |-> <<<<"c", "l", "a", "s", "s", "i", "c">>, <<"b", "i", "b", "l", "i", "c", "a", "l">>>>,
     popularity |-> Dec(2, 10)],
    [name |-> <<"G", "r", "a", "c", "e">>, gender |-> "girl",
     origin |-> <<"E", "n", "g", "l", "i", "s", "h">>,
     meaning |-> "grace",
     themes |-> <<<<"v", "i", "r", "t", "u", "e">>, <<"c", "l", "a", "s", "s", "i", "c">>>>,
     popularity |-> Dec(15, 100)],
    [name |-> <<"A", "o", "i", "f", "e">>, gender |-> "girl",
     origin |-> <<"I", "r", "i", "s", "h">>,
     meaning |-> "beauty, radiance",
     themes |-> <<<<"c", "e", "l", "t", "i", "c">>, <<"m", "y", "t", "h">>>>,
     popularity |-> Dec(2, 100)],
    [name |-> <<"F", "i", "n", "n">>, gender |-> "boy",
     origin |-> <<"I", "r", "i", "s", "h">>,
     meaning |-> "fair",
     themes |-> <<<<"c", "e", "l", "t", "i", "c">>, <<"m", "o", "d", "e", "r", "n">>>>,
     popularity |-> Dec(8, 100)],
    [name |-> <<"A", "a", "r", "a", "v">>, gender |-> "boy",
     origin |-> <<"S", "a", "n", "s", "k", "r", "i", "t">>,
     meaning |-> "peaceful",
     themes |-> <<<<"h", "i", "n", "d", "u">>, <<"v", "i", "r", "t", "u", "e">>>>,
     popularity |-> Dec(1, 10)],
    [name |-> <<"A", "n", "a", "y", "a">>, gender |-> "girl",
     origin |-> <<"S", "a", "n", "s", "k", "r", "i", "t">>,
     meaning |-> "caring, protection",
     themes |-> <<<<"h", "i", "n", "d", "u">>, <<"v", "i", "r", "t", "u", "e">>>>,
     popularity |-> Dec(9, 100)],
    [name |-> <<"Z", "a", "y", "d">>, gender |-> "boy",
     origin |-> <<"A", "r", "a", "b", "i", "c">>,
     meaning |-> "growth, abundance",
     themes |-> <<<<"m", "u", "s", "l", "i", "m">>, <<"v", "i", "r", "t", "u", "e">>>>,
     popularity |-> Dec(4, 100)],
    [name |-> <<"L", "a", "y", "l", "a">>, gender |-> "girl",
     origin |-> <<"A", "r", "a", "b", "i", "c">>,
     meaning |-> "night",
     themes |-> <<<<"m", "u", "s", "l", "i", "m">>, <<"p", "o", "e", "t", "i", "c">>>>,
     popularity |-> Dec(14, 100)],
    [name |-> <<"M", "a", "t", "e", "o">>, gender |-> "boy",
     origin |-> <<"S", "p", "a", "n", "i", "s", "h">>,
     meaning |-> "gift of God",
     themes |-> <<<<"b", "i", "b", "l", "i", "c", "a", "l">>, <<"c", "l", "a", "s", "s", "i", "c">>>>,
     popularity |-> Dec(18, 100)],
    [name |-> <<"S", "o", "f", "i", "a">>, gender |-> "girl",
     origin |-> <<"G", "r", "e", "e", "k", "/", "S", "p", "a", "n", "i", "s", "h">>,
     meaning |-> "wisdom",
     themes |-> <<<<"c", "l", "a", "s", "s", "i", "c">>>>,
     popularity |-> Dec(2, 10)],
    [name |-> <<"A", "s", "h", "a">>, gender |-> "girl",
     origin |-> <<"S", "w", "a", "h", "i", "l", "i">>,
     meaning |-> "life, hope",
     themes |-> <<<<"v", "i", "r", "t", "u", "e">>, <<"n", "a", "t", "u", "r", "e">>>>,
     popularity |-> Dec(5, 100)],
    [name |-> <<"K", "e", "h", "i", "n", "d", "e">>, gender |-> "boy",
     origin |-> <<"Y", "o", "r", "u", "b", "a">>,
     meaning |-> "second-born of twins",
     themes |-> <<<<"h", "e", "r", "i", "t", "a", "g", "e">>>>,
     popularity |-> Dec(1, 100)],
    [name |-> <<"W", "e", "i">>, gender |-> "unisex",
     origin |-> <<"C", "h", "i", "n", "e", "s", "e">>,
     meaning |-> "great, mighty",
     themes |-> <<<<"v", "i", "r", "t", "u", "e">>>>,
     popularity |-> Dec(6, 100)],
    [name |-> <<"M", "e", "i">>, gender |-> "girl",
     origin |-> <<"C", "h", "i", "n", "e", "s", "e">>,
     meaning |-> "beautiful",
     themes |-> <<<<"v", "i", "r", "t", "u", "e">>>>,
     popularity |-> Dec(7, 100)],
    [name |-> <<"N", "o", "a", "h">>, gender |-> "boy",
     origin |-> <<"H", "e", "b", "r", "e", "w">>,
     meaning |-> "rest, comfort",
     themes |-> <<<<"b", "i", "b", "l", "i", "c", "a", "l">>, <<"c", "l", "a", "s", "s", "i", "c">>>>,
     popularity |-> Dec(22, 100)],
    [name |-> <<"M", "i", "r", "i", "a", "m">>, gender |-> "girl",
     origin |-> <<"H", "e", "b", "r", "e", "w">>,
     meaning |-> "wished-for child",
     themes |-> <<<<"b", "i", "b", "l", "i", "c", "a", "l">>, <<"c", "l", "a", "s", "s", "i", "c">>>>,
     popularity |-> Dec(3, 100)],
    [name |-> <<"A", "t", "l", "a", "s">>, gender |-> "boy",
     origin |-> <<"G", "r", "e", "e", "k">>,
     meaning |-> "bearer of the heavens",
     themes |-> <<<<"m", "y", "t", "h">>, <<"m", "o", "d", "e", "r", "n">>>>,
     popularity |-> Dec(5, 100)],
    [name |-> <<"I", "r", "i", "s">>, gender |-> "girl",
     origin |-> <<"G", "r", "e", "e", "k">>,
     meaning |-> "rainbow",
     themes |-> <<<<"n", "a", "t", "u", "r", "e">>, <<"m", "y", "t", "h">>>>,
     popularity |-> Dec(9, 100)],
    [name |-> <<"M", "i", "l", "a">>, gender |-> "girl",
     origin |-> <<"S", "l", "a", "v", "i", "c">>,
     meaning |-> "gracious, dear",
     themes |-> <<<<"m", "o", "d", "e", "r", "n">>, <<"v", "i", "r", "t", "u", "e">>>>,
     popularity |-> Dec(16, 100)],
    [name |-> <<"N", "i", "k", "o", "l", "a", "i">>, gender |-> "boy",
     origin |-> <<"S", "l", "a", "v", "i", "c">>,
     meaning |-> "victory of the people",
     themes |-> <<<<"c", "l", "a", "s", "s", "i", "c">>>>,
     popularity |-> Dec(4, 100)],
    [name |-> <<"R", "e", "n">>, gender |-> "unisex",
     origin |-> <<"J", "a", "p", "a", "n", "e", "s", "e">>,
     meaning |-> "lotus, love",
     themes |-> <<<<"n", "a", "t", "u", "r", "e">>, <<"m", "o", "d", "e", "r", "n">>>>,
     popularity |-> Dec(5, 100)],
    [name |-> <<"S", "o", "r", "a">>, gender |-> "unisex",
     origin |-> <<"J", "a", "p", "a", "n", "e", "s", "e">>,
     meaning |-> "sky",
     themes |-> <<<<"n", "a", "t", "u", "r", "e">>>>,
     popularity |-> Dec(3, 100)]
    >>

(***************************************************************************)
(* score_name                                                              *)
(***************************************************************************)

\* The float constants of score_name, each the double its literal denotes.
GenderMatch == Dec(2, 1)

GenderMismatch == Dec(5, 10)

CultureMatch == Dec(15, 10)

LanguageMatch == Dec(5, 10)

BeliefMatch == Dec(1, 1)

StyleMatch == Dec(1, 1)

PrefixMatch == Dec(8, 10)

LengthFits == Dec(4, 10)

SurnameClash == Dec(2, 10)

UniqueCeiling == Dec(8, 10)

BalancedPeak == Dec(6, 10)

SiblingClash == Dec(3, 10)

\* any(t.lower() in hay for t in texts)
AnyIn(texts, hay) == \E i \in 1..Len(texts) : contains(hay, lower(texts[i]))

\* Mutant of UniquenessTerm: the balanced curve measured from 0.5 instead of its
\* peak 0.6, which dips below zero at the low end of the range.
UniquenessTermShifted(uniqueness, pop) ==
    IF uniqueness = Some("unique")
    THEN LET d == FSub(UniqueCeiling, pop) IN IF FLess(Zero, d) THEN d ELSE Zero
    ELSE IF uniqueness = Some("common") THEN pop
    ELSE FHalf(FSub(Dec(5, 10), FAbs(FSub(pop, BalancedPeak))))

\* The popularity contribution (the "Uniqueness vs popularity" block).
UniquenessTerm(uniqueness, pop) ==
    IF uniqueness = Some("unique")
    THEN LET d == FSub(UniqueCeiling, pop) IN IF FLess(Zero, d) THEN d ELSE Zero
    ELSE IF uniqueness = Some("common") THEN pop
    ELSE FHalf(FSub(BalancedPeak, FAbs(FSub(pop, BalancedPeak))))

\* `if cond: score += c`
AddIf(s, cond, c) == IF cond THEN FAdd(s, c) ELSE s

\* `if cond: score -= c`
SubIf(s, cond, c) == IF cond THEN FSub(s, c) ELSE s

\* Mutant of SiblingStep: the rhyme rule as an `elif` of the initial rule, so that
\* one sibling costs 0.3 at most.
SiblingStepElif(s, sib, name) ==
    IF sib = <<>> THEN s
    ELSE LET sib_l == lower(sib)
         IN  IF startswith(lower(name), first(sib_l, 1)) THEN FSub(s, SiblingClash)
             ELSE SubIf(s, Len(sib_l) > 2 /\ endswith(lower(name), last(sib_l, 2)),
                        SiblingClash)

\* The body of `for sib in pref.sibling_names` for one sibling, on score s.
SiblingStep(s, sib, name) ==
    IF sib = <<>> THEN s
    ELSE LET sib_l == lower(sib)
         IN  SubIf(SubIf(s, startswith(lower(name), first(sib_l, 1)), SiblingClash),
                   Len(sib_l) > 2 /\ endswith(lower(name), last(sib_l, 2)),
                   SiblingClash)

\* The sibling loop over siblings[i..], from score s.
RECURSIVE SiblingLoop(_, _, _, _)
SiblingLoop(s, siblings, i, name) ==
    IF i > Len(siblings) THEN s
    ELSE SiblingLoop(SiblingStep(s, siblings[i], name), siblings, i + 1, name)

\* score_name(pref, item), without the sibling loop that ends it.
ScoreBeforeSiblings(p, it) ==
    LET themes == lower(join(<<",">>, it.themes))
        n == lower(it.name)
        sur == lower(p.surname)
        s1 == IF ~TruthyStr(p.gender) THEN Zero
              ELSE IF \/ Some(it.gender) = p.gender
                      \/ (p.gender = Some("unisex") /\ it.gender = "unisex")
                   THEN FAdd(Zero, GenderMatch)
                   ELSE FSub(Zero, GenderMismatch)
        s2 == AddIf(s1, /\ p.cultures # <<>>
                        /\ it.origin # <<>>
                        /\ AnyIn(p.cultures, lower(it.origin)), CultureMatch)
        s3 == AddIf(s2, p.languages # <<>> /\ AnyIn(p.languages, themes), LanguageMatch)
        s4 == AddIf(s3, p.beliefs # <<>> /\ AnyIn(p.beliefs, themes), BeliefMatch)
        s5 == AddIf(s4, TruthyText(p.style) /\ contains(themes, lower(p.style[1])),
                    StyleMatch)
        s6 == AddIf(s5, /\ TruthyText(p.starts_with)
                        /\ startswith(n, lower(p.starts_with[1])), PrefixMatch)
        s7 == AddIf(s6, TruthyInt(p.max_length) /\ Len(it.name) <= p.max_length[1],
                    LengthFits)
        s8 == SubIf(s7, p.surname # <<>> /\ n[1] = sur[1], SurnameClash)
        s9 == SubIf(s8, /\ p.surname # <<>>
                        /\ Len(n) > 2 /\ Len(sur) > 2 /\ last(n, 2) = last(sur, 2),
                    SurnameClash)
    IN  FAdd(s9, UniquenessTerm(p.uniqueness, it.popularity))

score_name(p, it) == SiblingLoop(ScoreBeforeSiblings(p, it), p.sibling_names, 1, it.name)

(***************************************************************************)
(* generate_suggestions                                                    *)
(***************************************************************************)

Rationale == "Ranked using your preferences for culture, themes, style, and flow with your surname"

\* Mutant of Excluded: the gender test left to the score alone.
ExcludedByLengthOnly(p, it) == TruthyInt(p.max_length) /\ Len(it.name) > p.max_length[1]

\* The two `continue` tests of the loop: the record is left out.
Excluded(p, it) ==
    \/ TruthyInt(p.max_length) /\ Len(it.name) > p.max_length[1]
    \/ TruthyStr(p.gender) /\ it.gender \notin {p.gender[1], "unisex"}

\* The loop over BASIC_NAMES[i..]: (score, item) of every record kept, in catalog order.
RECURSIVE Candidates(_, _, _)
Candidates(p, names, i) ==
    IF i > Len(names) THEN <<>>
    ELSE IF Excluded(p, names[i]) THEN Candidates(p, names, i + 1)
    ELSE <<[score |-> score_name(p, names[i]), item |-> names[i]]>>
         \o Candidates(p, names, i + 1)

\* Mutant of InsertDesc: the element goes before the elements of equal score, as
\* in an ascending sort that is then reversed.
RECURSIVE InsertDescBeforeEqual(_, _)
InsertDescBeforeEqual(sorted, e) ==
    IF sorted = <<>> THEN <<e>>
    ELSE IF ~FLess(e.score, Head(sorted).score) THEN <<e>> \o sorted
    ELSE <<Head(sorted)>> \o InsertDescBeforeEqual(Tail(sorted), e)

\* One element put into a list sorted by descending score, after every element
\* whose score is not smaller: the place a stable sort gives it.
RECURSIVE InsertDesc(_, _)
InsertDesc(sorted, e) ==
    IF sorted = <<>> THEN <<e>>
    ELSE IF FLess(Head(sorted).score, e.score) THEN <<e>> \o sorted
    ELSE <<Head(sorted)>> \o InsertDesc(Tail(sorted), e)

\* ranked.sort(key=lambda x: x[0], reverse=True): stable, descending.
RECURSIVE SortDesc(_, _)
SortDesc(done, todo) ==
    IF todo = <<>> THEN done ELSE SortDesc(InsertDesc(done, Head(todo)), Tail(todo))

\* Mutant of Ranked: `ranked` kept from one call to the next (a mutable default
\* argument or a module-level list) instead of starting empty.
RankedLeaky(p, names) ==
    SortDesc(IF ranked = None THEN <<>> ELSE ranked, Candidates(p, names, 1))

\* ranked, after the sort
Ranked(p, names) == SortDesc(<<>>, Candidates(p, names, 1))

\* s[:n] of a list, n any integer
Slice(s, n) ==
    IF n >= 0 THEN first(s, n)
    ELSE IF Len(s) + n > 0 THEN SubSeq(s, 1, Len(s) + n) ELSE <<>>

Suggestion(e) ==
    [name |-> e.item.name, gender |-> e.item.gender, origin |-> e.item.origin,
     meaning |-> e.item.meaning, themes |-> e.item.themes,
     score |-> Round3(e.score), rationale |-> Rationale]

\* top, built from ranked[:limit]
Top(r, n) == LET cut == Slice(r, n) IN [i \in 1..Len(cut) |-> Suggestion(cut[i])]

generate_suggestions(p, n) == Top(Ranked(p, catalog), n)

(***************************************************************************)
(* Preferences and requests the model draws its inputs from                *)
(***************************************************************************)

Smith == <<"S", "m", "i", "t", "h">>

Day == <<"D", "a", "y">>

Maia == <<"M", "a", "i", "a">>

Mia == <<"M", "i", "a">>

Al == <<"A", "l">>

Noel == <<"N", "o", "e", "l">>

Ann == <<"A", "n", "n">>

Hebrew == <<"H", "e", "b", "r", "e", "w">>

classic == <<"c", "l", "a", "s", "s", "i", "c">>

modern == <<"m", "o", "d", "e", "r", "n">>

virtue == <<"V", "i", "r", "t", "u", "e">>

\* Preference(surname=s): every other field at its default (schemas.py).
Preference(s) ==
    [surname |-> s, cultures |-> <<>>, languages |-> <<>>, beliefs |-> <<>>,
     family_origins |-> <<>>, parent_names |-> <<>>, sibling_names |-> <<>>,
     gender |-> None, style |-> None, starts_with |-> None, max_length |-> None,
     uniqueness |-> None]

\* The scenarios of the specification, and one preference that uses every field.
HebrewBoy ==
    [Preference(Smith) EXCEPT !.gender = Some("boy"), !.cultures = <<Hebrew>>,
                              !.uniqueness = Some("unique")]

DayMia == [Preference(Day) EXCEPT !.sibling_names = <<Mia>>]

Everything ==
    [Preference(Smith) EXCEPT !.cultures = <<<<>>>>, !.languages = <<classic>>,
                              !.beliefs = <<virtue>>, !.style = Some(modern),
                              !.starts_with = Some(<<"M">>), !.max_length = Some(5),
                              !.sibling_names = <<Noel, <<>>, Ann>>,
                              !.gender = Some("unisex"), !.uniqueness = Some("balanced")]

ScenarioPrefs == {HebrewBoy, DayMia, Everything}

Genders == {None, Some(""), Some("boy"), Some("girl"), Some("unisex"), Some("other")}

MaxLengths == {None, Some(0), Some(-1), Some(3), Some(5)}

Uniquenesses == {None, Some("unique"), Some("common")}

GridPrefs ==
    { [Preference(sn) EXCEPT !.gender = g, !.max_length = m, !.uniqueness = u,
                             !.sibling_names = sb, !.languages = lg] :
        sn \in {Day, Maia}, g \in Genders, m \in MaxLengths, u \in Uniquenesses,
        sb \in {<<>>, <<Mia>>}, lg \in {<<>>, <<classic>>} }

GenPrefs == GridPrefs \cup ScenarioPrefs

GenLimits == {0, 1, 12, 30, -20}

(***************************************************************************)
(* Direct calls of generate_suggestions                                    *)
(***************************************************************************)

\* The process after start-up: the catalog as declared, an empty collection,
\* no request served.
Started ==
    /\ catalog = BASIC_NAMES
    /\ log = <<>>
    /\ sinkCalls = 0
    /\ requests = 0
    /\ request = None
    /\ response = None
    /\ raised = FALSE
    /\ answered = {}

InitGen ==
    /\ Started
    /\ pref \in GenPrefs
    /\ limit = None
    /\ item = None
    /\ ranked = None
    /\ result = None
    /\ score = None
    /\ pc = "call"

\* Mutant of CatalogAfter: BASIC_NAMES itself sorted by score, in place.
CatalogSortedInPlace(p) ==
    LET all == [i \in 1..Len(catalog) |->
                  [score |-> score_name(p, catalog[i]), item |-> catalog[i]]]
        sorted == SortDesc(<<>>, all)
    IN  [i \in 1..Len(sorted) |-> sorted[i].item]

\* The effect of a call of generate_suggestions on the global BASIC_NAMES: none.
CatalogAfter(p) == catalog

\* generate_suggestions(pref, limit), its local `ranked` kept for inspection.
Generate ==
    /\ pc = "call"
    /\ LET r == Ranked(pref, catalog)
       IN  \E n \in GenLimits :
             /\ limit' = n
             /\ ranked' = r
             /\ result' = Top(r, n)
    /\ catalog' = CatalogAfter(pref)
    /\ pc' = "done"
    /\ UNCHANGED <<log, sinkCalls, requests, request, response, raised, answered,
                   pref, item, score>>

NextGen == Generate

SpecGen == InitGen /\ [][NextGen]_vars

(***************************************************************************)
(* Direct calls of score_name                                              *)
(***************************************************************************)

Lola == <<"L", "o", "l", "a">>

SONIA == <<"S", "O", "N", "I", "A">>

MaxSiblings == 2

SiblingPool == {Mia, Lola, SONIA, Al, <<>>}

SiblingLists == UNION {[1..n -> SiblingPool] : n \in 0..MaxSiblings}

SiblingPrefs == {[Preference(Day) EXCEPT !.sibling_names = sb] : sb \in SiblingLists}

\* Preferences that set nothing but the uniqueness mode: score_name is then the
\* popularity contribution alone.
BarePrefs ==
    {[Preference(<<>>) EXCEPT !.uniqueness = u] :
        u \in {None, Some("balanced"), Some("rare"), Some("unique"), Some("common")}}

\* Popularities in hundredths, from below 0 to above 1.2.
MinPop == 3

MaxPop == 123

Hundredths(h) == IF h < 0 THEN FNeg(Dec(-h, 100)) ELSE Dec(h, 100)

\* A record like a catalog record, with popularity h / 100.
RecordWithPopularity(h) ==
    [name |-> <<"X", "i">>, gender |-> "unisex", origin |-> <<>>, meaning |-> "",
     themes |-> <<>>, popularity |-> Hundredths(h)]

PopRecords == {RecordWithPopularity(h) : h \in (0 - MinPop)..MaxPop}

CatalogRecords == {BASIC_NAMES[i] : i \in 1..Len(BASIC_NAMES)}

ScoreInputs ==
    (SiblingPrefs \X CatalogRecords) \cup (BarePrefs \X (PopRecords \cup CatalogRecords))

InitScore ==
    /\ Started
    /\ \E in \in ScoreInputs : pref = in[1] /\ item = in[2]
    /\ limit = None
    /\ ranked = None
    /\ result = None
    /\ score = None
    /\ pc = "call"

\* score_name(pref, item)
ScoreName ==
    /\ pc = "call"
    /\ score' = score_name(pref, item)
    /\ pc' = "done"
    /\ UNCHANGED <<catalog, log, sinkCalls, requests, request, response, raised, answered,
                   pref, limit, item, ranked, result>>

NextScore == ScoreName

SpecScore == InitScore /\ [][NextScore]_vars

(***************************************************************************)
(* The server: api_generate and api_history                                *)
(***************************************************************************)

MaxRequests == 3

\* GenerateRequest: a Preference with a quantity.
GenerateRequest(p, q) ==
    [surname |-> p.surname, cultures |-> p.cultures, languages |-> p.languages,
     beliefs |-> p.beliefs, family_origins |-> p.family_origins,
     parent_names |-> p.parent_names, sibling_names |-> p.sibling_names,
     gender |-> p.gender, style |-> p.style, starts_with |-> p.starts_with,
     max_length |-> p.max_length, uniqueness |-> p.uniqueness, quantity |-> q]

\* Preference(**req.model_dump()): the request without its quantity.
PreferenceOf(req) ==
    [surname |-> req.surname, cultures |-> req.cultures, languages |-> req.languages,
     beliefs |-> req.beliefs, family_origins |-> req.family_origins,
     parent_names |-> req.parent_names, sibling_names |-> req.sibling_names,
     gender |-> req.gender, style |-> req.style, starts_with |-> req.starts_with,
     max_length |-> req.max_length, uniqueness |-> req.uniqueness]

\* qty = req.quantity or 12
Quantity(req) == IF TruthyInt(req.quantity) THEN req.quantity[1] ELSE 12

Generation(p, suggestions) == [preference |-> p, suggestions |-> suggestions, notes |-> None]

\* create_document(collection, data) on the collection `store`: the document is
\* stored and the call returns, or the call raises and nothing is stored.
create_document(store, data, fails) ==
    IF fails THEN [raised |-> TRUE, store |-> store]
    ELSE [raised |-> FALSE, store |-> Append(store, data)]

\* get_documents(collection, {}, n) on the collection `store`
get_documents(store, n, fails) ==
    IF fails THEN [raised |-> TRUE, docs |-> <<>>]
    ELSE [raised |-> FALSE, docs |-> first(store, n)]

\* Mutant of Persist: a failed create_document call tried once more.
PersistRetries(store, gen, fails) ==
    LET c == create_document(store, gen, fails)
    IN  [calls |-> IF c.raised THEN 2 ELSE 1, raised |-> c.raised, store |-> c.store]

\* The try block of api_generate: one create_document call, its exception caught.
Persist(store, gen, fails) ==
    LET c == create_document(store, gen, fails)
    IN  [calls |-> 1, raised |-> c.raised, store |-> c.store]

\* Mutant of GenerateResponse: the sink's exception reaches the caller.
GenerateResponsePropagates(suggestions, sinkRaised) ==
    IF sinkRaised THEN [status |-> 500, suggestions |-> <<>>]
    ELSE [status |-> 200, suggestions |-> suggestions]

\* What api_generate returns after the try block.
GenerateResponse(suggestions, sinkRaised) == [status |-> 200, suggestions |-> suggestions]

ApiRequests ==
    {GenerateRequest(p, q) : p \in {HebrewBoy, DayMia}, q \in {None, Some(0), Some(2)}}

HistoryLimits == {1, 10}

\* POST /api/generate.  The handler's locals (the preference, qty, the ranked
\* list, the suggestions, the outcome of the try block) are each bound once.
api_generate(req, fails) ==
    /\ pc = "idle"
    /\ requests < MaxRequests
    /\ \E p \in {PreferenceOf(req)}, qty \in {Quantity(req)} :
       \E r \in {Ranked(p, catalog)} :
       \E suggestions \in {Top(r, qty)} :
       \E sink \in {Persist(log, Generation(p, suggestions), fails)} :
           /\ pref' = p
           /\ limit' = qty
           /\ ranked' = r
           /\ result' = suggestions
           /\ catalog' = CatalogAfter(p)
           /\ log' = sink.store
           /\ sinkCalls' = sinkCalls + sink.calls
           /\ raised' = sink.raised
           /\ response' = GenerateResponse(suggestions, sink.raised)
           /\ answered' = answered \cup
                {[request |-> req, raised |-> sink.raised,
                  suggestions |-> response'.suggestions]}
    /\ request' = [op |-> "generate", body |-> req]
    /\ requests' = requests + 1
    /\ UNCHANGED <<item, score, pc>>

\* GET /api/history?limit=n
api_history(n, fails) ==
    /\ pc = "idle"
    /\ requests < MaxRequests
    /\ LET got == get_documents(log, n, fails)
       IN  /\ raised' = got.raised
           /\ response' = IF got.raised THEN [status |-> 500, items |-> <<>>]
                          ELSE [status |-> 200, items |-> got.docs]
    /\ request' = [op |-> "history", body |-> n]
    /\ requests' = requests + 1
    /\ UNCHANGED <<catalog, log, sinkCalls, answered, pref, limit, item, ranked, result,
                   score, pc>>

Init ==
    /\ Started
    /\ pref = None
    /\ limit = None
    /\ item = None
    /\ ranked = None
    /\ result = None
    /\ score = None
    /\ pc = "idle"

Next ==
    \/ \E req \in ApiRequests, fails \in BOOLEAN : api_generate(req, fails)
    \/ \E n \in HistoryLimits, fails \in BOOLEAN : api_history(n, fails)

Spec == Init /\ [][Next]_vars

(***************************************************************************)
(* Properties                                                              *)
(***************************************************************************)

\* The place in the catalog of the record called name (names are distinct).
IndexOf(name) == CHOOSE k \in 1..Len(BASIC_NAMES) : BASIC_NAMES[k].name = name

Generated == request # None /\ request.op = "generate"

Called == pc = "done"

\* C1: a generate request whose create_document call raised is still answered
\* with status 200 and the suggestions generate_suggestions returned, and these
\* are the suggestions the same request gets when the call succeeds.
C1_FailOpen ==
    /\ (Generated /\ raised) =>
          /\ response.status = 200
          /\ response.suggestions = result
    /\ \A a, b \in answered :
          (a.request = b.request /\ a.raised /\ ~b.raised) => a.suggestions = b.suggestions

\* The same request answered once with the sink failing and once with it
\* succeeding, the failure last, with suggestions to compare.
C1_Witness ==
    /\ Generated /\ raised
    /\ \E a, b \in answered :
          /\ a.request = b.request /\ a.raised /\ ~b.raised
          /\ Len(b.suggestions) > 1

\* C2: when the preference's gender is set (a non-empty string g), every
\* suggestion generate_suggestions returns has gender g or "unisex".
C2_GenderFilter ==
    (Called /\ TruthyStr(pref.gender)) =>
        \A i \in 1..Len(result) : result[i].gender \in {pref.gender[1], "unisex"}

\* A "boy" request answered with boys and unisex names, although girls score
\* higher than the last of them would.
C2_Witness ==
    /\ Called /\ pref.gender = Some("boy") /\ limit = 30
    /\ \E i, j \in 1..Len(result) : result[i].gender = "boy" /\ result[j].gender = "unisex"
    /\ Len(result) < Len(catalog)

\* C3: when the preference's max_length is L, every suggestion
\* generate_suggestions returns has a name of at most L characters.
C3_LengthFilter ==
    (Called /\ pref.max_length # None) =>
        \A i \in 1..Len(result) : Len(result[i].name) <= pref.max_length[1]

\* C4, as claimed: the suggestions are in descending order of score, and two with
\* equal score are in catalog order.
C4_RankingOrder ==
    Called =>
        \A i, j \in 1..Len(result) :
            i < j =>
                /\ result[i].score >= result[j].score
                /\ result[i].score = result[j].score =>
                      IndexOf(result[i].name) < IndexOf(result[j].name)

\* C4, amended: the suggestions are the head of the ranked records, in descending
\* order of score, and two ranked records whose unrounded scores (the floats the
\* sort compares) are equal are in catalog order.
C4_RankingOrderByKey ==
    Called =>
        /\ Len(result) <= Len(ranked)
        /\ \A i \in 1..Len(result) : result[i].name = ranked[i].item.name
        /\ \A i \in 1..(Len(result) - 1) : result[i].score >= result[i + 1].score
        /\ \A i, j \in 1..Len(ranked) :
              i < j =>
                  /\ ~FLess(ranked[i].score, ranked[j].score)
                  /\ ranked[i].score = ranked[j].score =>
                        IndexOf(ranked[i].item.name) < IndexOf(ranked[j].item.name)

\* Two suggestions returned next to each other with the same unrounded score,
\* and two with different scores.
C4_Witness ==
    /\ Called
    /\ \E i \in 1..(Len(result) - 1) : ranked[i].score = ranked[i + 1].score
    /\ \E i \in 1..(Len(result) - 1) : result[i].score > result[i + 1].score

\* C5: a request with quantity 0 gets no suggestions, through api_generate and
\* from generate_suggestions called with limit 0.
C5_QuantityZero ==
    /\ (Generated /\ request.body.quantity = Some(0)) => response.suggestions = <<>>
    /\ (Called /\ limit = 0) => result = <<>>

\* C6: two generate requests with the same preference and quantity got the same
\* suggestions, whatever was requested before them or between them and whether
\* or not the other generations were stored.
C6_Deterministic ==
    \A a, b \in answered : a.request = b.request => a.suggestions = b.suggestions

\* The same request answered first and third, a request with another preference
\* answered between them: the first two generations are the stored documents, in
\* that order, and the third, the request just served, was not stored.
C6_Witness ==
    /\ Generated /\ raised
    /\ sinkCalls = 3 /\ Len(log) = 2
    /\ log[1].preference = pref
    /\ log[2].preference # pref
    /\ log[2].suggestions # <<>>
    /\ \E a \in answered :
          a.request = request.body /\ ~a.raised /\ Len(a.suggestions) > 1

IsPrefix(s, t) == Len(s) <= Len(t) /\ SubSeq(t, 1, Len(s)) = s

\* C7: every step keeps the stored documents as they are; a generate request
\* calls create_document exactly once, and the collection then is as before (the
\* call raised) or has one more document, holding the preference and the
\* suggestions the response returns; a history request calls it never.
C7_SinglePersist ==
    [][ /\ IsPrefix(log, log')
        /\ request'.op = "generate" =>
              /\ sinkCalls' = sinkCalls + 1
              /\ log' = IF raised' THEN log
                        ELSE Append(log, Generation(pref', response'.suggestions))
        /\ request'.op = "history" => (sinkCalls' = sinkCalls /\ log' = log)
      ]_vars

\* A failed attempt after a stored one: two calls for two requests, one document.
C7_Witness == Generated /\ raised /\ sinkCalls = 2 /\ Len(log) = 1

\* The number of (sibling, rule) matches of C8: non-empty siblings whose first
\* character starts the name, and siblings longer than 2 whose last 2 characters
\* end it, case-insensitively.
Matches(siblings, name) ==
    Cardinality({i \in 1..Len(siblings) :
                    /\ siblings[i] # <<>>
                    /\ lower(<<name[1]>>) = lower(<<siblings[i][1]>>)})
    + Cardinality({i \in 1..Len(siblings) :
                    /\ Len(siblings[i]) > 2 /\ Len(name) >= 2
                    /\ lower(last(name, 2)) = lower(last(siblings[i], 2))})

RECURSIVE SubtractTimes(_, _, _)
SubtractTimes(s, c, n) == IF n = 0 THEN s ELSE SubtractTimes(FSub(s, c), c, n - 1)

WithoutSiblings(p) == [p EXCEPT !.sibling_names = <<>>]

\* C8: score_name is the score of the same preference without siblings, less 0.3
\* once per (sibling, rule) match: 0.3 subtracted that many times, and in
\* thousandths 300 times the number of matches.
C8_SiblingPenalties ==
    Called /\ score # None =>
        LET base == score_name(WithoutSiblings(pref), item)
            n == Matches(pref.sibling_names, item.name)
        IN  /\ score = SubtractTimes(base, Dec(3, 10), n)
            /\ Round3(score) = Round3(base) - 300 * n

\* One sibling that matches Sofia by both rules costs 0.6, beside an empty
\* sibling that costs nothing.
C8_Witness ==
    /\ Called /\ score # None
    /\ pref.sibling_names = <<SONIA, <<>>>>
    /\ item.name = <<"S", "o", "f", "i", "a">>
    /\ Round3(score) = Round3(score_name(WithoutSiblings(pref), item)) - 600

Balanced(p) == p \in BarePrefs /\ p.uniqueness \notin {Some("unique"), Some("common")}

InRange(pop) == ~FLess(pop, Zero) /\ ~FLess(Dec(1, 1), pop)

\* C9, as claimed: the balanced contribution is negative for some popularity
\* within [0, 1] or for some catalog record (looked at once score_name has run).
C9_BalancedGoesNegative ==
    Called =>
    \E it \in PopRecords \cup CatalogRecords :
        InRange(it.popularity) /\ FLess(UniquenessTerm(None, it.popularity), Zero)

\* C9, amended: under a balanced, unset or unknown uniqueness the popularity
\* contribution (all of score_name for a preference that sets nothing else) is
\* negative exactly when the popularity is below 0 or above 1.2, so never within
\* [0, 1], and it is positive for every catalog record.
C9_BalancedNeverNegativeInRange ==
    (Called /\ score # None /\ Balanced(pref)) =>
        /\ FLess(score, Zero) <=>
              (FLess(item.popularity, Zero) \/ FLess(Dec(12, 10), item.popularity))
        /\ InRange(item.popularity) => ~FLess(score, Zero)
        /\ item \in CatalogRecords => FLess(Zero, score)

\* The lowest popularity of the range scored under the balanced mode: 0, not less.
C9_Witness ==
    /\ Called /\ score # None /\ Balanced(pref)
    /\ item.popularity = Zero
    /\ score = Zero

\* C10: the catalog is BASIC_NAMES as declared, and every suggestion returned
\* carries the name, gender, origin, meaning and themes of one of its records.
C10_CatalogImmutable ==
    /\ catalog = BASIC_NAMES
    /\ result # None =>
          \A i \in 1..Len(result) :
              LET rec == catalog[IndexOf(result[i].name)]
              IN  /\ result[i].gender = rec.gender
                  /\ result[i].origin = rec.origin
                  /\ result[i].meaning = rec.meaning
                  /\ result[i].themes = rec.themes

\* A history request served after a generate request whose persistence failed.
C10_Witness ==
    /\ request # None /\ request.op = "history"
    /\ sinkCalls = 1 /\ log = <<>>
    /\ result # None /\ Len(result) > 1

====
